---- MODULE Spec2Model ----
(***************************************************************************)
(* A model of the binarypuzzle package: the BinaryPuzzle class of          *)
(* src/src/binarypuzzle/__init__.py, driven by a caller that builds a      *)
(* matrix, constructs a BinaryPuzzle from it, reads rows(), writes cells   *)
(* of the lists it holds and calls solve().                                *)
(*                                                                         *)
(* Python lists are objects: the model keeps a heap of inner lists (cells) *)
(* and a heap of outer lists (lists), so that two references to one list   *)
(* are one address.  Python indexes from 0 and TLA+ sequences from 1: a    *)
(* position (x, y) of the code is the element [x + 1][y + 1] here.         *)
(***************************************************************************)
EXTENDS Integers, Sequences, FiniteSets, TLC

VARIABLES
    cells,    \* heap of inner lists: address |-> the row's values
    lists,    \* heap of outer lists: address |-> the addresses of its rows
    puzzle,   \* the caller's reference to the matrix it passes to BinaryPuzzle
    grid,     \* the constructed BinaryPuzzle: its _puzzle and _size
    view,     \* the caller's reference to the list grid.rows() returned
    result,   \* the caller's reference to the BinaryPuzzle solve() returned
    last      \* the caller's last call: operation, receiver and outcome

vars == <<cells, lists, puzzle, grid, view, result, last>>

-----------------------------------------------------------------------------
(* Bounds of the model. *)

MaxRows  == 2    \* the caller's matrix has at most MaxRows rows
MaxCells == 4    \* and at most MaxCells cells in all, in rows of any lengths
MaxVal   == 2    \* cell values the caller supplies: None and 0..MaxVal
MaxInt   == 2    \* integers the solver's symbols range over: 0..MaxInt
MaxSize  == 6    \* the largest puzzle handed to the solver

-----------------------------------------------------------------------------
(* Values. *)

\* None, the unknown marker N of the package (an integer outside 0..MaxVal).
N == -1

CallerValues == {N} \cup (0..MaxVal)

IntDom == 0..MaxInt

\* Addresses start at 1: address 0 is no list, and NoGrid is the BinaryPuzzle
\* that does not exist (the constructor raised, or solve() has not returned).
NoGrid == [puzzle |-> 0, size |-> 0]

-----------------------------------------------------------------------------
(* The heap. *)

\* The matrix an outer list denotes: its rows' values.
Matrix(l) == [i \in 1..Len(lists[l]) |-> cells[lists[l][i]]]

\* Mutant: the lists of the receiver (the first of the heap) are handed out
\* again instead of new ones.
FreshReused(h, n) == [i \in 1..n |-> i]

\* The n lowest addresses that heap h does not use, in increasing order.
Fresh(h, n) ==
    LET free == {a \in 1..(Cardinality(DOMAIN h) + n) : a \notin DOMAIN h}
    IN  [i \in 1..n |-> CHOOSE a \in free : Cardinality({b \in free : b < a}) = i - 1]

\* Heap h with the new lists at the addresses as holding the values of p.
Store(h, as, p) ==
    [a \in {as[i] : i \in 1..Len(as)} |-> p[CHOOSE i \in 1..Len(as) : as[i] = a]] @@ h

\* Heap h without the addresses in dead.
Release(h, dead) == [a \in (DOMAIN h) \ dead |-> h[a]]

-----------------------------------------------------------------------------
(* BinaryPuzzle.__init__ *)

RECURSIVE CellCount(_)
\* reduce(lambda acc, row: acc + len(row), puzzle, 0)
CellCount(p) ==
    IF p = <<>> THEN 0 ELSE CellCount(SubSeq(p, 1, Len(p) - 1)) + Len(p[Len(p)])

\* Mutant: the check that the size is even is missing.
ValidateAnyParity(p) ==
    LET size == Len(p) IN
    IF size = 0 THEN "InvalidPuzzleError"
    ELSE IF CellCount(p) # size * size THEN "InvalidPuzzleError"
    ELSE IF \E i \in 1..Len(p) : \E j \in 1..Len(p[i]) : p[i][j] \notin {0, 1, N}
         THEN "InvalidPuzzleError"
    ELSE "ok"

\* The checks of the constructor, in the order of the code.
Validate(p) ==
    LET size == Len(p) IN
    IF size = 0 THEN "InvalidPuzzleError"
    ELSE IF CellCount(p) # size * size THEN "InvalidPuzzleError"
    ELSE IF size % 2 # 0 THEN "InvalidPuzzleError"
    ELSE IF \E i \in 1..Len(p) : \E j \in 1..Len(p[i]) : p[i][j] \notin {0, 1, N}
         THEN "InvalidPuzzleError"
    ELSE "ok"

\* The object the constructor leaves for list l of matrix p: self._puzzle is
\* the caller's list itself, self._size its length.
NewPuzzle(l, p) == [puzzle |-> l, size |-> Len(p)]

\* grid = BinaryPuzzle(puzzle)
Construct ==
    /\ last.op = "init"
    /\ grid' = IF Validate(Matrix(puzzle)) = "ok" THEN NewPuzzle(puzzle, Matrix(puzzle))
                ELSE NoGrid
    /\ last' = [op |-> "construct", recv |-> "", out |-> Validate(Matrix(puzzle))]
    /\ UNCHANGED <<cells, lists, puzzle, view, result>>

-----------------------------------------------------------------------------
(* The accessors. *)

\* BinaryPuzzle.size
Size(g) == g.size

\* BinaryPuzzle.rows: the values of the list it returns.
Rows(g) == Matrix(g.puzzle)

\* BinaryPuzzle.positions, in the order of the code.
Positions(g) ==
    [k \in 1..(Size(g) * Size(g)) |-> <<(k - 1) \div Size(g), (k - 1) % Size(g)>>]

\* self._puzzle[x][y] raises IndexError outside the lists.
InRange(g, x, y) ==
    /\ x + 1 \in 1..Len(lists[g.puzzle])
    /\ y + 1 \in 1..Len(cells[lists[g.puzzle][x + 1]])

\* self._puzzle[x][y]
Cell(g, x, y) == cells[lists[g.puzzle][x + 1]][y + 1]

\* BinaryPuzzle.columns: the transposed view, or IndexError.
ColumnsRaises(g) ==
    \E y \in 0..(Size(g) - 1) : \E x \in 0..(Size(g) - 1) : ~InRange(g, x, y)

Columns(g) == [y \in 1..Size(g) |-> [x \in 1..Size(g) |-> Cell(g, x - 1, y - 1)]]

\* BinaryPuzzle.__eq__
Eq(g, h) == Rows(g) = Rows(h)

\* view = grid.rows(): a new outer list holding the same inner lists.
CallRows ==
    /\ grid # NoGrid
    /\ view = 0
    /\ LET l == Fresh(lists, 1)[1] IN
         /\ lists' = (l :> lists[grid.puzzle]) @@ lists
         /\ view' = l
    /\ last' = [op |-> "rows", recv |-> "grid", out |-> "ok"]
    /\ UNCHANGED <<cells, puzzle, grid, result>>

-----------------------------------------------------------------------------
(* BinaryPuzzle.solve: the constraints handed to the solver.  An assignment *)
(* a gives the symbol of position (x, y) the integer a[x + 1][y + 1]; its   *)
(* rows are a itself and its columns are Transpose(a).                      *)

\* columns: column y is [symbols[(x, y)] for x in range(size)].
Transpose(a) == [y \in 1..Len(a) |-> [x \in 1..Len(a) |-> a[x][y]]]

\* Mutant: "if not value: continue" skips the known zeros with the None cells.
KnownCellTruthy(value, v) == (value # N /\ value # 0) => v = value

\* if value is None: continue; solver.add(symbols[(x, y)] == value), where v
\* is the integer the symbol takes.
KnownCell(value, v) == value # N => v = value

\* The loop over self.positions() that adds the known cells.
Known(g, a) ==
    LET ps == Positions(g) IN
    \A k \in 1..Len(ps) :
        KnownCell(Cell(g, ps[k][1], ps[k][2]), a[ps[k][1] + 1][ps[k][2] + 1])

\* Or([symbol == value for value in [0, 1]]), for the symbols of one line.
CellDomain(line) == \A i \in 1..Len(line) : line[i] = 0 \/ line[i] = 1

RECURSIVE Sum(_)
Sum(line) == IF line = <<>> THEN 0 ELSE line[1] + Sum(Tail(line))

\* Sum(line) == size // 2
Balanced(line, size) == Sum(line) = size \div 2

\* And([a == b for a, b in zip(line_a, line_b)])
SameLine(la, lb) ==
    \A i \in 1..(IF Len(la) < Len(lb) THEN Len(la) ELSE Len(lb)) : la[i] = lb[i]

\* Not(Or([... for line_a in lines for line_b in lines if line_a != line_b])):
\* two lists of symbols differ exactly when they are different lines.
Unique(lines) ==
    ~ \E i \in 1..Len(lines) : \E j \in 1..Len(lines) :
        i # j /\ SameLine(lines[i], lines[j])

\* Mutant: only the windows of three ones are forbidden (the sum of the window
\* is 3), the windows of three zeros are forgotten.
NoTripleOnes(line, size) ==
    \A i \in 0..(size - 3) :
        ~ (line[i + 1] = 1 /\ line[i + 2] = 1 /\ line[i + 3] = 1)

\* Not(And([a == b, b == c])) for the windows line[i:i + 3], i in range(size - 2).
NoTriple(line, size) ==
    \A i \in 0..(size - 3) :
        ~ (line[i + 1] = line[i + 2] /\ line[i + 2] = line[i + 3])

\* The constraints on one row or one column.
LineConstraints(line, size) ==
    /\ CellDomain(line)
    /\ Balanced(line, size)
    /\ size > 2 => NoTriple(line, size)

\* Everything added to the solver before solver.check().  The solver takes the
\* conjunction of what was added, whatever the order of the solver.add calls;
\* the constraints on the columns are evaluated first, most candidates fail
\* them.
Constraints(g, a) ==
    LET columns == Transpose(a) IN
    /\ \A y \in 1..Size(g) : LineConstraints(columns[y], Size(g))
    /\ \A x \in 1..Size(g) : LineConstraints(a[x], Size(g))
    /\ Unique(a)
    /\ Unique(columns)
    /\ Known(g, a)

\* The solver ranges over all integer assignments.  The candidates here are
\* those over IntDom whose every row passes the constraints on a row and on the
\* known cells of that row: no model is lost, each model passes them too.
RECURSIVE LinesUpTo(_)
LinesUpTo(size) ==
    IF size = 0 THEN <<>>
    ELSE Append(LinesUpTo(size - 1),
                {r : r \in {c \in [1..size -> IntDom] : LineConstraints(c, size)}})

\* LineCandidates[size]: the candidate lines of a puzzle of that size.
LineCandidates == LinesUpTo(MaxSize)

RowCandidates(g, x) ==
    LET row == [y \in 1..Size(g) |-> Cell(g, x, y - 1)] IN
    {r \in LineCandidates[Size(g)] : \A y \in 1..Size(g) : KnownCell(row[y], r[y])}

RECURSIVE Candidates(_, _)
Candidates(g, n) ==
    IF n = 0 THEN {<<>>}
    ELSE {Append(a, r) : a \in Candidates(g, n - 1), r \in RowCandidates(g, n - 1)}

\* The models of the constraints: solver.check() is sat iff there is one, and
\* solver.model() is one of them, the solver's choice.
Models(g) == {a \in Candidates(g, Size(g)) : Constraints(g, a)}

\* Mutant: the result is read as result[(y, x)], the transposed matrix.
EvaluateTransposed(a, size) == [x \in 1..size |-> [y \in 1..size |-> a[y][x]]]

\* [[result[(x, y)].as_long() for y in range(size)] for x in range(size)]
Evaluate(a, size) == [x \in 1..size |-> [y \in 1..size |-> a[x][y]]]

\* for x, y in self.positions(): value = self._puzzle[x][y] raises IndexError
\* when a row is shorter than size.
ReadRaises(g) ==
    LET ps == Positions(g) IN
    \E k \in 1..Len(ps) : ~InRange(g, ps[k][1], ps[k][2])

Receiver(who) == IF who = "grid" THEN grid ELSE result

\* The rows and the outer list of the BinaryPuzzle the caller's result names.
RowAddrs(g) == IF g = NoGrid THEN {} ELSE {lists[g.puzzle][i] : i \in 1..Len(lists[g.puzzle])}

ListAddrs(g) == IF g = NoGrid THEN {} ELSE {g.puzzle}

\* result = receiver.solve(): an exception leaves result as it was; a returned
\* BinaryPuzzle is built from new lists, and the caller's old result is dropped.
Solve(who) ==
    LET g  == Receiver(who)
        ms == Models(g)
    IN
    /\ g # NoGrid
    /\ IF ReadRaises(g)
         THEN /\ last' = [op |-> "solve", recv |-> who, out |-> "IndexError"]
              /\ UNCHANGED <<cells, lists, result>>
       ELSE IF ms = {}
         THEN /\ last' = [op |-> "solve", recv |-> who, out |-> "UnsolvablePuzzleError"]
              /\ UNCHANGED <<cells, lists, result>>
       ELSE \E a \in ms :
              LET p  == Evaluate(a, Size(g))
                  rs == Fresh(cells, Len(p))
                  l  == Fresh(lists, 1)[1]
              IN  IF Validate(p) # "ok"
                    THEN /\ last' = [op |-> "solve", recv |-> who, out |-> Validate(p)]
                         /\ UNCHANGED <<cells, lists, result>>
                    ELSE /\ cells' = Release(Store(cells, rs, p), RowAddrs(result))
                         /\ lists' = Release((l :> rs) @@ lists, ListAddrs(result))
                         /\ result' = NewPuzzle(l, p)
                         /\ last' = [op |-> "solve", recv |-> who, out |-> "ok"]
    /\ UNCHANGED <<puzzle, grid, view>>

-----------------------------------------------------------------------------
(* The caller. *)

\* The cells flat cut into rows of the lengths lens.
Split(flat, lens) ==
    [i \in 1..Len(lens) |->
        SubSeq(flat, Sum(SubSeq(lens, 1, i - 1)) + 1, Sum(SubSeq(lens, 1, i)))]

InitWith(p) ==
    /\ cells = [a \in 1..Len(p) |-> p[a]]
    /\ puzzle = 1
    /\ lists = (1 :> [i \in 1..Len(p) |-> i])
    /\ grid = NoGrid
    /\ view = 0
    /\ result = NoGrid
    /\ last = [op |-> "init", recv |-> "", out |-> ""]

\* The matrices the caller may pass: up to MaxRows rows and MaxCells cells,
\* in rows of any lengths, of values inside and outside {0, 1, None}.
Init ==
    \E k \in 0..MaxRows : \E lens \in [1..k -> 0..MaxCells] :
        /\ Sum(lens) <= MaxCells
        /\ \E flat \in [1..Sum(lens) -> CallerValues] : InitWith(Split(flat, lens))

\* some_list[i][j] = v, through the matrix the caller passed in (l = puzzle)
\* or through the list rows() returned (l = view).
SetCell(l) ==
    /\ grid # NoGrid
    /\ l # 0
    /\ \E i \in 1..Len(lists[l]) : \E j \in 1..Len(cells[lists[l][i]]) :
         \E v \in CallerValues :
            cells' = [cells EXCEPT ![lists[l][i]][j] = v]
    /\ last' = [op |-> "setcell", recv |-> "", out |-> "ok"]
    /\ UNCHANGED <<lists, puzzle, grid, view, result>>

Next ==
    \/ Construct
    \/ CallRows
    \/ SetCell(puzzle)
    \/ SetCell(view)
    \/ Solve("grid")
    \/ Solve("result")

Spec == Init /\ [][Next]_vars

-----------------------------------------------------------------------------
(* The solver on square puzzles of sizes 2, 4 and 6. *)

\* Rows of a 4 x 4 puzzle: solved, partly known and overfull ones.
Rows4 ==
    { <<0, N, N, N>>, <<N, N, 1, N>>, <<N, 0, 0, N>>, <<1, 1, 1, 1>>,
      <<0, 1, 1, 0>>, <<1, 0, 0, 1>>, <<0, 1, 0, 1>>, <<1, 0, 1, 0>> }

\* The 6 x 6 puzzle of test_simple_solve and the solution the test expects.
Puzzle6 ==
    << <<1, N, N, 0, N, N>>,
       <<N, N, 0, 0, N, 1>>,
       <<N, 0, 0, N, N, 1>>,
       <<N, N, N, N, N, N>>,
       <<0, 0, N, 1, N, N>>,
       <<N, 1, N, N, 0, 0>> >>

Solved6 ==
    << <<1, 0, 1, 0, 1, 0>>,
       <<0, 1, 0, 0, 1, 1>>,
       <<1, 0, 0, 1, 0, 1>>,
       <<0, 1, 1, 0, 1, 0>>,
       <<0, 0, 1, 1, 0, 1>>,
       <<1, 1, 0, 1, 0, 0>> >>

\* Matrix p with the cells of the rows R and the columns C made unknown.
Masked(p, R, C) ==
    [x \in 1..Len(p) |-> [y \in 1..Len(p) |-> IF x \in R /\ y \in C THEN N ELSE p[x][y]]]

\* The test's puzzle with any of its rows filled in, and the solution with the
\* crossing cells of any two rows and two columns made unknown.
Inputs6 ==
    {[x \in 1..6 |-> IF x \in R THEN Solved6[x] ELSE Puzzle6[x]] : R \in SUBSET (1..6)}
    \cup {Masked(Solved6, {r1, r2}, {c1, c2}) :
            r1 \in 1..6, r2 \in 1..6, c1 \in 1..6, c2 \in 1..6}

SolveInputs == [1..2 -> [1..2 -> {0, 1, N}]] \cup [1..4 -> Rows4] \cup Inputs6

InitSolve == \E p \in SolveInputs : InitWith(p)

NextSolve == Construct \/ Solve("grid") \/ Solve("result")

SpecSolve == InitSolve /\ [][NextSolve]_vars

-----------------------------------------------------------------------------
(* What the properties below speak of: a solved binary puzzle, stated from  *)
(* the rules of the game and not from the solver's constraints.            *)

Count(line, v) == Cardinality({i \in 1..Len(line) : line[i] = v})

\* One row or column of a solved puzzle of size n.
SolvedLine(line, n) ==
    /\ Len(line) = n
    /\ \A i \in 1..n : line[i] \in {0, 1}
    /\ Count(line, 0) * 2 = n
    /\ Count(line, 1) * 2 = n
    /\ n > 2 => \A i \in 1..(n - 2) :
                    Cardinality({line[i], line[i + 1], line[i + 2]}) = 2

Distinct(lines) ==
    \A i \in 1..Len(lines) : \A j \in 1..Len(lines) : i < j => lines[i] # lines[j]

\* Matrix m is a solved binary puzzle of size n.
SolvedMatrix(m, n) ==
    /\ Len(m) = n
    /\ \A x \in 1..n : SolvedLine(m[x], n)
    /\ \A y \in 1..n : SolvedLine([x \in 1..n |-> m[x][y]], n)
    /\ Distinct(m)
    /\ Distinct([y \in 1..n |-> [x \in 1..n |-> m[x][y]]])

\* BinaryPuzzle g, read through rows(), columns() and size(), is solved.
SolvedGrid(g) ==
    /\ SolvedMatrix(Rows(g), Size(g))
    /\ SolvedMatrix(Columns(g), Size(g))

HasUnknown(g) ==
    \E i \in 1..Len(Rows(g)) : \E j \in 1..Len(Rows(g)[i]) : Rows(g)[i][j] = N

HasKnown(g) ==
    \E i \in 1..Len(Rows(g)) : \E j \in 1..Len(Rows(g)[i]) : Rows(g)[i][j] \in {0, 1}

Returned == last.op = "solve" /\ last.out = "ok"

-----------------------------------------------------------------------------
(* C1 *)

\* C1: whenever solve() returns a BinaryPuzzle, it is a solved binary puzzle:
\* every cell is 0 or 1, every row and column holds size/2 zeros and size/2
\* ones, for size > 2 no three consecutive cells of a row or column are equal,
\* the rows are pairwise distinct and so are the columns.
SolveReturnsSolved == Returned => SolvedGrid(result)

\* A 6 x 6 puzzle with unknown cells has been solved.
SolveReturnsSolvedWitness ==
    /\ Returned
    /\ last.recv = "grid"
    /\ Size(grid) = 6
    /\ HasUnknown(grid)
    /\ SolvedGrid(result)

-----------------------------------------------------------------------------
(* C2 *)

\* C2: whenever solve() on G returns R, R has the size of G and equals G at
\* every position where G holds 0 or 1.
SolveKeepsClues ==
    [][\A who \in {"grid", "result"} :
          (last'.op = "solve" /\ last'.out = "ok" /\ last'.recv = who) =>
             LET G == Rows(Receiver(who)) IN
             /\ Size(result)' = Size(Receiver(who))
             /\ \A x \in 1..Len(G) : \A y \in 1..Len(G[x]) :
                   G[x][y] \in {0, 1} => Rows(result)'[x][y] = G[x][y]]_vars

\* A puzzle holding known and unknown cells has been solved, and the result
\* holds its known cells.
SolveKeepsCluesWitness ==
    /\ Returned
    /\ last.recv = "grid"
    /\ HasKnown(grid)
    /\ HasUnknown(grid)
    /\ \A x \in 1..Len(Rows(grid)) : \A y \in 1..Len(Rows(grid)[x]) :
          Rows(grid)[x][y] \in {0, 1} => Rows(result)[x][y] = Rows(grid)[x][y]

-----------------------------------------------------------------------------
(* C8 *)

\* C8: solve() on a BinaryPuzzle without unknown cells that satisfies the rules
\* succeeds and returns an equal BinaryPuzzle, also when the receiver is itself
\* the result of a solve().
SolveIdempotent ==
    [][\A who \in {"grid", "result"} :
          (last'.op = "solve" /\ last'.recv = who /\ SolvedGrid(Receiver(who))) =>
             /\ last'.out = "ok"
             /\ Rows(result)' = Rows(Receiver(who))]_vars

\* A solved 4 x 4 puzzle was constructed and solve() returned an equal one.
SolveIdempotentWitness ==
    /\ Returned
    /\ last.recv = "grid"
    /\ Size(grid) = 4
    /\ SolvedGrid(grid)
    /\ Eq(grid, result)

-----------------------------------------------------------------------------
(* C4 *)

CellPositions(p) == UNION {{<<i, j>> : j \in 1..Len(p[i])} : i \in 1..Len(p)}

\* Matrix p is empty, not of (number of rows) squared cells, of an odd number
\* of rows, or holds a value outside {0, 1, None}.
MustReject(p) ==
    \/ Len(p) = 0
    \/ Cardinality(CellPositions(p)) # Len(p) * Len(p)
    \/ Len(p) % 2 = 1
    \/ \E c \in CellPositions(p) : p[c[1]][c[2]] \notin {0, 1, N}

-----------------------------------------------------------------------------
(* C5 *)

\* C5: every BinaryPuzzle that construction accepts is square: each of its rows
\* has exactly size cells.
ConstructedIsSquare ==
    grid # NoGrid => \A i \in 1..Len(Rows(grid)) : Len(Rows(grid)[i]) = Size(grid)

-----------------------------------------------------------------------------
(* C6 *)

\* C6: solve() on a constructed BinaryPuzzle returns a BinaryPuzzle or fails
\* with UnsolvablePuzzleError, and with no other error.
SolveOutcomes == last.op = "solve" => last.out \in {"ok", "UnsolvablePuzzleError"}

-----------------------------------------------------------------------------
(* C3 *)

\* The solved puzzles of size n.
SolvedOfSize(n) == {m \in [1..n -> [1..n -> {0, 1}]] : SolvedMatrix(m, n)}

\* The solved puzzles that agree with g at every cell g knows.
Completions(g) ==
    {m \in SolvedOfSize(Size(g)) :
        \A c \in CellPositions(Rows(g)) :
            Rows(g)[c[1]][c[2]] # N =>
                /\ c[2] <= Size(g)
                /\ m[c[1]][c[2]] = Rows(g)[c[1]][c[2]]}

\* C3: solve() fails with UnsolvablePuzzleError exactly when no solved puzzle
\* agrees with the receiver at every known cell, and returns a BinaryPuzzle
\* whenever one does.
SolveFailsIffNoCompletion ==
    (last.op = "solve" /\ last.recv = "grid") =>
        /\ last.out = "UnsolvablePuzzleError" <=> Completions(grid) = {}
        /\ Completions(grid) # {} => last.out = "ok"

\* The same for the receivers whose rows all have size cells.
SquareSolveFailsIffNoCompletion ==
    (/\ last.op = "solve"
     /\ last.recv = "grid"
     /\ \A i \in 1..Len(Rows(grid)) : Len(Rows(grid)[i]) = Size(grid))
        => SolveFailsIffNoCompletion

-----------------------------------------------------------------------------
(* C7 *)

\* C7: a BinaryPuzzle holds a copy of the cells it was constructed from: no
\* step of the caller changes what rows() of the constructed BinaryPuzzle
\* returns.
RowsNeverChange == [][grid # NoGrid => Rows(grid)' = Rows(grid)]_vars

-----------------------------------------------------------------------------
(* C10 *)

\* C10: solve() never mutates its receiver: over every solve() step the
\* constructed BinaryPuzzle keeps its size(), rows() and columns(), a failing
\* call leaves the caller's result as it was, and a returned BinaryPuzzle is
\* made of lists that neither the receiver nor the constructed BinaryPuzzle
\* holds.
SolveLeavesReceiver ==
    [][last'.op = "solve" =>
          /\ Size(grid)' = Size(grid)
          /\ Rows(grid)' = Rows(grid)
          /\ ~ColumnsRaises(grid) => Columns(grid)' = Columns(grid)
          /\ last'.out # "ok" =>
                /\ result' = result
                /\ result # NoGrid => Rows(result)' = Rows(result)
          /\ last'.out = "ok" =>
                /\ RowAddrs(result)' \cap (RowAddrs(grid) \cup RowAddrs(result)) = {}
                /\ ListAddrs(result)' \cap (ListAddrs(grid) \cup ListAddrs(result)) = {}
      ]_vars

\* solve() returned and the receiver still holds its unknown cells.
SolveLeavesReceiverWitness ==
    /\ Returned
    /\ last.recv = "grid"
    /\ HasUnknown(grid)
    /\ ~HasUnknown(result)
    /\ RowAddrs(result) \cap RowAddrs(grid) = {}

====
